---- MODULE Spec2Model ----
(***************************************************************************)
(* Verification model of the sabpaisa-qr-backend core:                     *)
(*   - VPAService (services/vpaService.js): identifier allocation from the *)
(*     vpa_pool table, the random-candidate loop guarded by the Redis      *)
(*     advisory lock, the sequential fallback and the pool refill;         *)
(*   - the HDFC webhook handler (routes/health.js) and                     *)
(*     QRTransactionService.processTransactionWebhook and initiateRefund;  *)
(*   - the address format, the callback checksum, generateAlternatives,    *)
(*     the API key middleware (middleware/apiAuth.js) and the QR limit of  *)
(*     QRController.createQR, each under a specification of its own.       *)
(* Every await of the JavaScript code is a yield point, so every action    *)
(* below is the code that runs between two awaits, together with the one   *)
(* storage or lock operation that the await waits for.                     *)
(* Storage is the SQL database the statements are written for: db.query    *)
(* runs one statement in autocommit mode, and db.getConnection() gives a   *)
(* connection whose beginTransaction / commit / rollback delimit a unit of *)
(* work, its writes becoming visible to other connections at commit. The   *)
(* in-memory substitute (database-mock) is not modelled.                   *)
(***************************************************************************)
EXTENDS Integers, FiniteSets, Sequences, TLC

(***************************************************************************)
(* Bounds of the model                                                     *)
(***************************************************************************)
\* size of the identifier space (stands for the 36^5 five-character codes)
NumIdentifiers == 2
\* number of random candidates a call tries in the runs with concurrent
\* calls (this.MAX_RETRIES, scaled down)
RetryBound == 1
\* number of distinct transaction ids the bank's callbacks carry
NumTxnIds == 1
\* number of identifiers one refill generates (POOL_SIZE, scaled down)
RefillSize == 1
\* number of characters of a field of the bank's plaintext
FieldLength == 2
\* requests per minute allowed to a live key and to a test key
RateLimitLive == 2
RateLimitTest == 1
\* number of characters an identifier can end with (IDENTIFIER_CHARS),
\* and the largest count asked of generateAlternatives
NumChars == 2
MaxCount == 2
\* the amount of the transaction that refunds are asked for
TxnAmount == 2
\* the largest MAX_QR_PER_MERCHANT the environment sets
MaxQrSetting == 2
\* refill when fewer unused rows than this (POOL_MIN_THRESHOLD, scaled down)
MinThreshold == 1

\* vpaService.js:12
MAX_RETRIES == 10
\* routes/health.js:537-538, the limits of validateAmount
AmountMin == 1
AmountMax == 100000
\* routes/health.js:556, the age in hours beyond which a callback is stale
MaxAgeHours == 24
\* the limit of active QR codes when MAX_QR_PER_MERCHANT is not set
DefaultMaxQr == 100

Identifiers == 1..NumIdentifiers
\* the concurrent generateUniqueIdentifier() calls
Callers == {"c1", "c2"}
\* the webhook requests in flight
Deliveries == {"d1", "d2"}
TxnIds == 1..NumTxnIds
Merchants == {"M1", "M2"}
\* parseFloat of a field that is no number
NaN == -1
\* the amounts a callback may carry: the limits, one below, one above, and
\* no number
Amounts == {AmountMin - 1, AmountMin, AmountMax, AmountMax + 1, NaN}
\* transactionStatus values
BankStatuses == {"SUCCESS", "FAILED", "PENDING"}
\* ages of transactionDateTime in hours
Ages == {MaxAgeHours, MaxAgeHours + 1}
NoRow == [status |-> "none"]
NoPayload == [transactionId |-> 0]

NoId == 0
NoLock == <<>>
\* the Error('Unable to generate unique identifier') of
\* generateSequentialIdentifier
Exhausted == -1
\* a rejected db.query (storage failure) that the call rethrows
StorageError == -2

VARIABLES
    vpa_pool,     \* the vpa_pool table, rows in created_at order
    qr_codes,     \* qr_identifier values present in the qr_codes table
    redisClient,  \* redis.client is available
    maxRetries,   \* this.MAX_RETRIES
    redisKeys,    \* the Redis keys vpa_lock:<identifier>, each a lock value
    svcLock,      \* this[`lock_${key}`] of the VPAService singleton
    pc,           \* position of each generateUniqueIdentifier() call
    attempts,     \* its local variable attempts
    identifier,   \* its local variable identifier
    retval,       \* the value of a pending `return identifier` (line 62)
    result,       \* what the call returned (or Exhausted when it threw)
    path,         \* which strategy produced the result
    refillPc,     \* position of the background checkAndRefillPool task
    refillIds,    \* the identifiers the running refill generated
    preUsed,      \* identifiers in use before any call (never changes)
    unused0,      \* number of unused pool rows before any call
    nodeEnv,      \* process.env.NODE_ENV
    merchantKey,  \* process.env.HDFC_MERCHANT_KEY is set
    qr_transactions,   \* committed qr_transactions rows by transaction_id
    qr_daily_stats,    \* committed qr_daily_stats rows by merchant_id
    qr_webhook_events, \* committed qr_webhook_events rows
    localStore,   \* transactions.json of LocalTransactionStore
    wpc,          \* position of each webhook request
    payload,      \* its parsed transactionData
    existing,     \* its local `existing.length > 0`
    unit,         \* its unit of work: the writes made on its connection
    response,     \* the HTTP response it sent
    lookup,       \* how its checkDuplicate lookup ended
    counted,      \* per transaction id, the updateDailyStats calls that stayed
    statusChanges \* the <<old, new>> status changes made to stored rows

vpaVars == <<vpa_pool, qr_codes, redisClient, maxRetries, redisKeys, svcLock, pc,
             attempts, identifier, retval, result, path, refillPc,
             refillIds, preUsed, unused0>>

webVars == <<nodeEnv, merchantKey, qr_transactions, qr_daily_stats,
             qr_webhook_events, localStore, wpc, payload, existing, unit,
             response, lookup, counted, statusChanges>>

VARIABLES
    cpc,          \* position of the formatVPA / extractIdentifier call
    code,         \* the identifier given to formatVPA
    vpa,          \* the address given to extractIdentifier
    extracted,    \* what extractIdentifier returned
    thrown        \* extractIdentifier threw 'Invalid VPA format'

codecVars == <<cpc, code, vpa, extracted, thrown>>

VARIABLES
    kpc,          \* position of the parse-and-verify of one plaintext
    sentFields,   \* the fields the checksum was made for
    fields,       \* the fields received: decryptedData.split('|')
    checksum,     \* the received checksum, fields[20]
    transactionData, \* the result of parseHDFCResponse, without checksum
    accepted      \* the result of EncryptionUtil.validateChecksum

checksumVars == <<kpc, sentFields, fields, checksum, transactionData, accepted>>

\* the state of the pure functions
pureVars == <<codecVars, checksumVars>>

VARIABLES
    apiKeyStore,    \* apiKeyStore: API key -> its data
    rateLimitStore, \* rateLimitStore: API key -> requests within the window
    headers,        \* x-api-key and x-api-secret of the last request
    admitted,       \* next() was called for the last request
    authStatus,     \* the status of the response sent by the middleware, or 0
    merchant        \* req.merchant.id of the last request

authVars == <<apiKeyStore, rateLimitStore, headers, admitted, authStatus,
              merchant>>

VARIABLES
    apc,           \* position of a generateAlternatives call
    base,          \* baseIdentifier
    count,         \* count
    altIndex,      \* i of the loop of strategy 1
    alternatives,  \* alternatives
    altDraws,      \* the random candidates drawn so far, modulo 2
    altResult      \* what the call returned

altVars == <<apc, base, count, altIndex, alternatives, altDraws, altResult>>

VARIABLES
    refundRow,        \* the qr_transactions row of the transaction
    qr_refund_audit,  \* table qr_refund_audit: the committed refund records
    fpc,              \* position of each initiateRefund call
    refundData,       \* refundData of each call
    refundAmount,     \* refundAmount of each call
    funit,            \* the unit of work of each call
    refundResult      \* how each call ended

refundVars == <<refundRow, qr_refund_audit, fpc, refundData, refundAmount,
                funit, refundResult>>

VARIABLES
    maxQrPerMerchant, \* process.env.MAX_QR_PER_MERCHANT
    activeQRCount,    \* QRService.getActiveQRCount of each merchant
    qrRequest,        \* the last createQR request
    qrOutcome         \* how far the last createQR request got

qrVars == <<maxQrPerMerchant, activeQRCount, qrRequest, qrOutcome>>

\* the state of the parts added to the allocation and the callback
otherVars == <<authVars, altVars, refundVars, qrVars>>

vars == <<vpaVars, webVars, pureVars, otherVars>>

(***************************************************************************)
(* The vpa_pool table                                                      *)
(***************************************************************************)
PoolIds(p) == {p[i].identifier : i \in DOMAIN p}

UnusedIds(p) == {p[i].identifier : i \in {j \in DOMAIN p : ~p[j].is_used}}

UsedIds(p) == {p[i].identifier : i \in {j \in DOMAIN p : p[j].is_used}}

\* SELECT COUNT(*) FROM vpa_pool WHERE is_used = false
getUnusedIdentifierCount(p) == Cardinality(UnusedIds(p))

\* UPDATE vpa_pool SET is_used = true WHERE identifier = $1
markAsUsed(p, id) ==
    [i \in DOMAIN p |->
        IF p[i].identifier = id THEN [p[i] EXCEPT !.is_used = TRUE] ELSE p[i]]

\* INSERT ... VALUES ($1, true) ON CONFLICT (identifier) DO UPDATE SET
\* is_used = true: an unconditional upsert
reserveIdentifier(p, id) ==
    IF id \in PoolIds(p)
    THEN markAsUsed(p, id)
    ELSE Append(p, [identifier |-> id, is_used |-> TRUE])

\* the oldest unused row: ORDER BY created_at ASC LIMIT 1
OldestUnused(p) ==
    LET idx == {j \in DOMAIN p : ~p[j].is_used}
    IN  IF idx = {} THEN NoId
        ELSE p[CHOOSE j \in idx : \A k \in idx : j <= k].identifier

\* INSERT INTO vpa_pool (identifier) VALUES ... ON CONFLICT DO NOTHING
RECURSIVE insertIdentifierBatch(_, _)
insertIdentifierBatch(p, ids) ==
    IF ids = {} THEN p
    ELSE LET id == CHOOSE x \in ids : \A y \in ids : x <= y
             q == IF id \in PoolIds(p) THEN p
                  ELSE Append(p, [identifier |-> id, is_used |-> FALSE])
         IN  insertIdentifierBatch(q, ids \ {id})

\* checkIdentifierExists: a qr_codes row, or a used vpa_pool row
checkIdentifierExists(id) == id \in qr_codes \/ id \in UsedIds(vpa_pool)

\* checkBulkIdentifiers
checkBulkIdentifiers(ids) == {id \in ids : checkIdentifierExists(id)}

(***************************************************************************)
(* Initial state: any pool contents, the startup initializeVPAPool pending *)
(* qr_codes holds identifiers issued outside the pool; an identifier with  *)
(* a used pool row exists for checkIdentifierExists with or without one.   *)
(***************************************************************************)
PoolRows == [identifier : Identifiers, is_used : BOOLEAN]

\* Identifiers are interchangeable, so the rows that exist before any call
\* are taken to have been created in the order of their identifiers.
InitialPools ==
    {p \in UNION {[1..n -> PoolRows] : n \in 0..NumIdentifiers} :
        \A i, j \in DOMAIN p : i < j => p[i].identifier < p[j].identifier}

VpaInit ==
    /\ vpa_pool \in InitialPools
    /\ qr_codes \in SUBSET (Identifiers \ PoolIds(vpa_pool))
    /\ redisClient \in BOOLEAN
    /\ maxRetries = RetryBound
    /\ redisKeys = [id \in Identifiers |-> NoLock]
    /\ svcLock = [id \in Identifiers |-> NoLock]
    /\ pc = [c \in Callers |-> "start"]
    /\ attempts = [c \in Callers |-> 0]
    /\ identifier = [c \in Callers |-> NoId]
    /\ retval = [c \in Callers |-> NoId]
    /\ result = [c \in Callers |-> NoId]
    /\ path = [c \in Callers |-> "none"]
    /\ refillPc = "count"
    /\ refillIds = {}
    /\ preUsed = qr_codes \cup UsedIds(vpa_pool)
    /\ unused0 = getUnusedIdentifierCount(vpa_pool)

(***************************************************************************)
(* generateUniqueIdentifier (vpaService.js:36-74)                          *)
(***************************************************************************)
callerVars == <<pc, attempts, identifier, retval, result, path>>
lockVars == <<redisKeys, svcLock>>
refillVars == <<refillPc, refillIds>>
staticVars == <<qr_codes, redisClient, maxRetries, preUsed, unused0, webVars,
                pureVars, otherVars>>

\* a loop test that lets one more attempt through
LoopOnceMore(a) == IF a <= maxRetries THEN "loop" ELSE "sequential"

\* where the while loop of line 47 continues with a attempts made
LoopPc(a) == IF a < maxRetries THEN "loop" ELSE "sequential"

\* the lock value of an acquisition (crypto.randomBytes(16)): a call holds
\* at most one value at a time, so the call's name stands for it
LockValue(c) == <<c>>

\* a db.query of call c is rejected and the call ends with that error
Throw(c) ==
    /\ result' = [result EXCEPT ![c] = StorageError]
    /\ pc' = [pc EXCEPT ![c] = "done"]

\* an UPDATE that returns the selected row and leaves it unused
claimWithoutMarking(p, id) == p

\* the UPDATE of getFromPool marks the row it selected
claimFromPool(p, id) == markAsUsed(p, id)

\* getFromPool: one UPDATE ... WHERE identifier = (SELECT ... LIMIT 1
\* FOR UPDATE SKIP LOCKED) RETURNING identifier. A returned row triggers
\* checkAndRefillPool (setImmediate) and ends the call.
getFromPool(c) ==
    /\ pc[c] = "start"
    /\ IF UnusedIds(vpa_pool) # {}
       THEN \E id \in UnusedIds(vpa_pool) :
               /\ vpa_pool' = claimFromPool(vpa_pool, id)
               /\ result' = [result EXCEPT ![c] = id]
               /\ path' = [path EXCEPT ![c] = "pool"]
               /\ pc' = [pc EXCEPT ![c] = "done"]
               /\ refillPc' = IF refillPc = "idle" THEN "count" ELSE refillPc
               /\ UNCHANGED refillIds
       ELSE /\ pc' = [pc EXCEPT ![c] = LoopPc(attempts[c])]
            /\ UNCHANGED <<vpa_pool, result, path, refillVars>>
    /\ UNCHANGED <<attempts, identifier, retval, lockVars, staticVars>>

\* lines 48-52: a fresh random candidate, then acquireLock (351-373):
\* true without any lock when redis.client is missing, SET key value PX NX
\* otherwise; a lock that is not obtained costs one attempt
acquireLock(c) ==
    /\ pc[c] = "loop"
    /\ \E id \in Identifiers :
        /\ identifier' = [identifier EXCEPT ![c] = id]
        /\ IF ~redisClient
           THEN /\ pc' = [pc EXCEPT ![c] = "check"]
                /\ UNCHANGED <<attempts, lockVars>>
           ELSE IF redisKeys[id] = NoLock
           THEN /\ redisKeys' = [redisKeys EXCEPT ![id] = LockValue(c)]
                /\ svcLock' = [svcLock EXCEPT ![id] = LockValue(c)]
                /\ pc' = [pc EXCEPT ![c] = "check"]
                /\ UNCHANGED attempts
           ELSE /\ attempts' = [attempts EXCEPT ![c] = attempts[c] + 1]
                /\ pc' = [pc EXCEPT ![c] = LoopPc(attempts[c] + 1)]
                /\ UNCHANGED lockVars
    /\ UNCHANGED <<vpa_pool, retval, result, path, refillVars, staticVars>>

\* line 56: exists = await checkIdentifierExists(identifier)
checkExists(c) ==
    /\ pc[c] = "check"
    /\ pc' = [pc EXCEPT ![c] =
                IF checkIdentifierExists(identifier[c])
                THEN "release65" ELSE "reserve"]
    /\ UNCHANGED <<vpa_pool, attempts, identifier, retval, result, path,
                   lockVars, refillVars, staticVars>>

\* line 60: await reserveIdentifier(identifier)
reserve(c) ==
    /\ pc[c] = "reserve"
    /\ vpa_pool' = reserveIdentifier(vpa_pool, identifier[c])
    /\ pc' = [pc EXCEPT ![c] = "release61"]
    /\ UNCHANGED <<attempts, identifier, retval, result, path,
                   lockVars, refillVars, staticVars>>

\* the query of line 56 or of line 60 is rejected: the exception is
\* pending while the finally block of line 65 runs
lockedQueryFails(c) ==
    /\ pc[c] \in {"check", "reserve"}
    /\ retval' = [retval EXCEPT ![c] = StorageError]
    /\ pc' = [pc EXCEPT ![c] = "release65"]
    /\ UNCHANGED <<vpa_pool, attempts, identifier, result, path,
                   lockVars, refillVars, staticVars>>

\* the query of getFromPool or of generateSequentialIdentifier is rejected
queryFails(c) ==
    /\ pc[c] \in {"start", "sequential", "markAsUsed"}
    /\ Throw(c)
    /\ UNCHANGED <<vpa_pool, attempts, identifier, retval, path,
                   lockVars, refillVars, staticVars>>

\* the Lua script of releaseLock: delete the key if it holds this value
CompareAndDelete(keys, id, value) ==
    IF keys[id] = value THEN [keys EXCEPT ![id] = NoLock] ELSE keys

\* what follows a finished releaseLock: after line 61 the return of line
\* 62 becomes pending and the finally block runs; after line 65 the call
\* returns the pending value, or else counts one attempt and loops
AfterRelease(c, line) ==
    IF line = 61
    THEN /\ retval' = [retval EXCEPT ![c] = identifier[c]]
         /\ pc' = [pc EXCEPT ![c] = "release65"]
         /\ UNCHANGED <<attempts, result, path>>
    ELSE IF retval[c] # NoId
    THEN /\ result' = [result EXCEPT ![c] = retval[c]]
         /\ path' = [path EXCEPT ![c] =
                        IF retval[c] = StorageError THEN "none" ELSE "random"]
         /\ pc' = [pc EXCEPT ![c] = "done"]
         /\ UNCHANGED <<attempts, retval>>
    ELSE /\ attempts' = [attempts EXCEPT ![c] = attempts[c] + 1]
         /\ pc' = [pc EXCEPT ![c] = LoopPc(attempts[c] + 1)]
         /\ UNCHANGED <<retval, result, path>>

\* releaseLock (378-396), up to its await: nothing to do without a client
\* or without a stored value; otherwise the script runs with the value
\* stored on the service object for this key
releaseLock(c, line) ==
    /\ pc[c] = IF line = 61 THEN "release61" ELSE "release65"
    /\ IF ~redisClient \/ svcLock[identifier[c]] = NoLock
       THEN /\ AfterRelease(c, line)
            /\ UNCHANGED redisKeys
       ELSE /\ redisKeys' = CompareAndDelete(redisKeys, identifier[c],
                                             svcLock[identifier[c]])
            /\ pc' = [pc EXCEPT ![c] = IF line = 61 THEN "delete61"
                                                    ELSE "delete65"]
            /\ UNCHANGED <<attempts, retval, result, path>>
    /\ UNCHANGED <<vpa_pool, identifier, svcLock, refillVars, staticVars>>

\* releaseLock after its await: delete this[`lock_${key}`]
deleteLockValue(c, line) ==
    /\ pc[c] = IF line = 61 THEN "delete61" ELSE "delete65"
    /\ svcLock' = [svcLock EXCEPT ![identifier[c]] = NoLock]
    /\ AfterRelease(c, line)
    /\ UNCHANGED <<vpa_pool, identifier, redisKeys, refillVars, staticVars>>

\* generateSequentialIdentifier (92-110), the SELECT: the statement runs
\* on the pool in autocommit mode, so its row lock ends with it
sequentialSelect(c) ==
    /\ pc[c] = "sequential"
    /\ IF OldestUnused(vpa_pool) # NoId
       THEN /\ identifier' = [identifier EXCEPT ![c] = OldestUnused(vpa_pool)]
            /\ pc' = [pc EXCEPT ![c] = "markAsUsed"]
            /\ UNCHANGED <<result, path>>
       ELSE /\ result' = [result EXCEPT ![c] = Exhausted]
            /\ path' = [path EXCEPT ![c] = "sequential"]
            /\ pc' = [pc EXCEPT ![c] = "done"]
            /\ UNCHANGED identifier
    /\ UNCHANGED <<vpa_pool, attempts, retval, lockVars, refillVars,
                   staticVars>>

\* generateSequentialIdentifier, await this.markAsUsed(identifier)
sequentialMark(c) ==
    /\ pc[c] = "markAsUsed"
    /\ vpa_pool' = markAsUsed(vpa_pool, identifier[c])
    /\ result' = [result EXCEPT ![c] = identifier[c]]
    /\ path' = [path EXCEPT ![c] = "sequential"]
    /\ pc' = [pc EXCEPT ![c] = "done"]
    /\ UNCHANGED <<attempts, identifier, retval, lockVars, refillVars,
                   staticVars>>

\* the PX time-to-live of a lock key runs out
expireLock(id) ==
    /\ redisKeys[id] # NoLock
    /\ redisKeys' = [redisKeys EXCEPT ![id] = NoLock]
    /\ UNCHANGED <<vpa_pool, callerVars, svcLock, refillVars, staticVars>>

(***************************************************************************)
(* checkAndRefillPool / refillVPAPool (vpaService.js:142-179)              *)
(***************************************************************************)
\* count = await getUnusedIdentifierCount(); refill below the threshold.
\* refillVPAPool generates its identifiers before its first await.
refillCount ==
    /\ refillPc = "count"
    /\ IF getUnusedIdentifierCount(vpa_pool) < MinThreshold
       THEN \E ids \in SUBSET Identifiers :
               /\ Cardinality(ids) = RefillSize
               /\ refillIds' = ids
               /\ refillPc' = "check"
       ELSE /\ refillPc' = "idle"
            /\ UNCHANGED refillIds
    /\ UNCHANGED <<vpa_pool, callerVars, lockVars, staticVars>>

\* existingIdentifiers = await checkBulkIdentifiers(...), then the filter
refillCheck ==
    /\ refillPc = "check"
    /\ refillIds' = refillIds \ checkBulkIdentifiers(refillIds)
    /\ refillPc' = IF refillIds' = {} THEN "idle" ELSE "insert"
    /\ UNCHANGED <<vpa_pool, callerVars, lockVars, staticVars>>

\* await insertIdentifierBatch(batch)
refillInsert ==
    /\ refillPc = "insert"
    /\ vpa_pool' = insertIdentifierBatch(vpa_pool, refillIds)
    /\ refillIds' = {}
    /\ refillPc' = "idle"
    /\ UNCHANGED <<callerVars, lockVars, staticVars>>

(***************************************************************************)
(* The webhook endpoint and the unit of work                               *)
(* (routes/health.js:565-758, QRTransactionService.js:240-348, 438-455)    *)
(***************************************************************************)
Payloads ==
    [transactionId : TxnIds, merchantId : Merchants, amount : Amounts,
     transactionStatus : BankStatuses, checksumOk : BOOLEAN, age : Ages,
     qrKnown : BOOLEAN]

NoUnit == [state |-> "none", kind |-> "none", status |-> "none",
           stats |-> FALSE, event |-> FALSE]

NoResponse == [code |-> 0, isDuplicate |-> FALSE, error |-> "none"]

Respond(c, dup, err) == [code |-> c, isDuplicate |-> dup, error |-> err]

\* a < b in JavaScript: false as soon as one side is NaN
JsLess(a, b) == a # NaN /\ b # NaN /\ a < b

\* validateAmount: throws when amount < limits.min || amount > limits.max
validateAmount(amount) ==
    ~(JsLess(amount, AmountMin) \/ JsLess(AmountMax, amount))

\* validateTimestamp: throws when hoursDiff > 24, except in development
validateTimestamp(age, env) == ~(env # "development" /\ age > MaxAgeHours)

\* the checksum test of lines 600-610, skipped in development
validateChecksum(ok, env) == env = "development" \/ ok

\* the status processSuccessfulTransaction / processFailedTransaction store
mappedStatus(bankStatus) == IF bankStatus = "SUCCESS" THEN "success" ELSE "failed"

\* getTransactionDetails: WHERE t.transaction_id = ? AND t.merchant_id = ?
getTransactionDetails(t, m) ==
    qr_transactions[t] # NoRow /\ qr_transactions[t].merchant_id = m

WebQuiet ==
    /\ nodeEnv = "production"
    /\ merchantKey = TRUE
    /\ qr_transactions = [t \in TxnIds |-> NoRow]
    /\ qr_daily_stats = [m \in Merchants |->
                            [successful_transactions |-> 0,
                             successful_amount |-> 0]]
    /\ qr_webhook_events = {}
    /\ localStore = {}
    /\ wpc = [d \in Deliveries |-> "off"]
    /\ payload = [d \in Deliveries |-> NoPayload]
    /\ existing = [d \in Deliveries |-> FALSE]
    /\ unit = [d \in Deliveries |-> NoUnit]
    /\ response = [d \in Deliveries |-> NoResponse]
    /\ lookup = [d \in Deliveries |-> "none"]
    /\ counted = [t \in TxnIds |-> 0]
    /\ statusChanges = {}

VpaQuiet ==
    /\ vpa_pool = <<>>
    /\ qr_codes = {}
    /\ redisClient = FALSE
    /\ maxRetries = RetryBound
    /\ redisKeys = [id \in Identifiers |-> NoLock]
    /\ svcLock = [id \in Identifiers |-> NoLock]
    /\ pc = [c \in Callers |-> "off"]
    /\ attempts = [c \in Callers |-> 0]
    /\ identifier = [c \in Callers |-> NoId]
    /\ retval = [c \in Callers |-> NoId]
    /\ result = [c \in Callers |-> NoId]
    /\ path = [c \in Callers |-> "none"]
    /\ refillPc = "idle"
    /\ refillIds = {}
    /\ preUsed = {}
    /\ unused0 = 0

(***************************************************************************)
(* The address codec: formatVPA, validateVPAFormat, extractIdentifier      *)
(* (vpaService.js:269-292). A string is a sequence of characters.          *)
(***************************************************************************)
\* vpaService.js:9, this.VPA_PREFIX = 'sabpaisa.'
VPA_PREFIX == <<"s", "a", "b", "p", "a", "i", "s", "a", ".">>
\* vpaService.js:8, this.VPA_DOMAIN = '@okhdfcbank'
VPA_DOMAIN == <<"@", "o", "k", "h", "d", "f", "c", "b", "a", "n", "k">>
\* vpaService.js:10
IDENTIFIER_LENGTH == 5
\* vpaService.js:11, this.IDENTIFIER_CHARS, also the class [A-Z0-9]
IDENTIFIER_CHARS ==
    {"A", "B", "C", "D", "E", "F", "G", "H", "I", "J", "K", "L", "M", "N",
     "O", "P", "Q", "R", "S", "T", "U", "V", "W", "X", "Y", "Z",
     "0", "1", "2", "3", "4", "5", "6", "7", "8", "9"}

\* the line terminators, which the dot of a regular expression skips
LineTerminators == {"\n", "\r"}

\* an address without the domain
formatWithoutDomain(id) == VPA_PREFIX \o id

\* formatVPA: `${this.VPA_PREFIX}${identifier}${this.VPA_DOMAIN}`
formatVPA(id) == VPA_PREFIX \o id \o VPA_DOMAIN

\* one character against one element of the pattern source: the prefix
\* and the domain are pasted into the pattern as they are, so a dot in
\* them is the wildcard and every other character of theirs is itself
MatchesPatternChar(pat, ch) ==
    IF pat = "." THEN ch \notin LineTerminators ELSE ch = pat

\* validateVPAFormat: new RegExp(`^${VPA_PREFIX}[A-Z0-9]{5}${VPA_DOMAIN}$`)
validateVPAFormat(v) ==
    LET np == Len(VPA_PREFIX)
        nd == Len(VPA_DOMAIN)
    IN  /\ Len(v) = np + IDENTIFIER_LENGTH + nd
        /\ \A i \in 1..np : MatchesPatternChar(VPA_PREFIX[i], v[i])
        /\ \A i \in 1..IDENTIFIER_LENGTH : v[np + i] \in IDENTIFIER_CHARS
        /\ \A i \in 1..nd :
              MatchesPatternChar(VPA_DOMAIN[i], v[np + IDENTIFIER_LENGTH + i])

\* extractIdentifier after the format test: vpa.substring(start, end)
\* with start = VPA_PREFIX.length and end = start + IDENTIFIER_LENGTH
extractIdentifier(v) ==
    SubSeq(v, Len(VPA_PREFIX) + 1, Len(VPA_PREFIX) + IDENTIFIER_LENGTH)

\* the identifiers given to formatVPA
Codes == [1..IDENTIFIER_LENGTH -> {"A", "9"}]

\* the characters an address is edited with
EditChars == {"A", "9", "a", "s", ".", "@", "-", "\n"}

\* the addresses given to extractIdentifier: every address of a code, and
\* each of them with one character replaced, removed or inserted
Addresses ==
    LET good == {VPA_PREFIX \o c \o VPA_DOMAIN : c \in Codes}
        replaced == {[a EXCEPT ![i] = ch] :
                        a \in good, i \in 1..Len(VPA_PREFIX \o VPA_DOMAIN) + IDENTIFIER_LENGTH,
                        ch \in EditChars}
        removed == {SubSeq(a, 1, i - 1) \o SubSeq(a, i + 1, Len(a)) :
                        a \in good,
                        i \in 1..Len(VPA_PREFIX \o VPA_DOMAIN) + IDENTIFIER_LENGTH}
        inserted == {SubSeq(a, 1, i) \o <<ch>> \o SubSeq(a, i + 1, Len(a)) :
                        a \in good,
                        i \in 0..Len(VPA_PREFIX \o VPA_DOMAIN) + IDENTIFIER_LENGTH,
                        ch \in EditChars}
    IN  good \cup replaced \cup removed \cup inserted

CodecQuiet ==
    /\ cpc = "off"
    /\ code = <<>>
    /\ vpa = <<>>
    /\ extracted = <<>>
    /\ thrown = FALSE

\* an environment variable that is not set
Unset == -1

NoQrRequest == [merchantId |-> "none", valid |-> FALSE]

\* no createQR request
QrQuiet ==
    /\ maxQrPerMerchant = Unset
    /\ activeQRCount = [m \in Merchants |-> 0]
    /\ qrRequest = NoQrRequest
    /\ qrOutcome = "none"

Refunders == {"f1", "f2"}

NoRefundData == [refund_type |-> "none", refund_amount |-> 0]

NoFunit == [state |-> "none", inserted |-> FALSE, updated |-> FALSE]

\* no initiateRefund call
RefundQuiet ==
    /\ refundRow = [status |-> "none", amount |-> 0, refund_amount |-> 0]
    /\ qr_refund_audit = {}
    /\ fpc = [f \in Refunders |-> "off"]
    /\ refundData = [f \in Refunders |-> NoRefundData]
    /\ refundAmount = [f \in Refunders |-> 0]
    /\ funit = [f \in Refunders |-> NoFunit]
    /\ refundResult = [f \in Refunders |-> "none"]

\* no generateAlternatives call
AltQuiet ==
    /\ apc = "off"
    /\ base = NoId
    /\ count = 0
    /\ altIndex = 0
    /\ alternatives = <<>>
    /\ altDraws = 0
    /\ altResult = <<>>

\* the middleware not loaded
AuthQuiet ==
    /\ apiKeyStore = <<>>
    /\ rateLimitStore = <<>>
    /\ headers = <<>>
    /\ admitted = FALSE
    /\ authStatus = 0
    /\ merchant = ""

ChecksumQuiet ==
    /\ kpc = "off"
    /\ sentFields = <<>>
    /\ fields = <<>>
    /\ checksum = <<>>
    /\ transactionData = <<>>
    /\ accepted = FALSE

\* a call of formatVPA followed by extractIdentifier, or a call of
\* extractIdentifier with an address from outside
CodecInit ==
    /\ VpaQuiet
    /\ WebQuiet
    /\ ChecksumQuiet
    /\ AuthQuiet
    /\ AltQuiet
    /\ RefundQuiet
    /\ QrQuiet
    /\ \/ cpc = "format" /\ code \in Codes /\ vpa = <<>>
       \/ cpc = "extract" /\ code = <<>> /\ vpa \in Addresses
    /\ extracted = <<>>
    /\ thrown = FALSE

\* fullVPA = VPAService.formatVPA(qrIdentifier)
formatStep ==
    /\ cpc = "format"
    /\ vpa' = formatVPA(code)
    /\ cpc' = "extract"
    /\ UNCHANGED <<code, extracted, thrown, vpaVars, webVars, checksumVars,
                   otherVars>>

\* extractIdentifier (284-292): throw unless validateVPAFormat(vpa)
extractStep ==
    /\ cpc = "extract"
    /\ IF validateVPAFormat(vpa)
       THEN /\ extracted' = extractIdentifier(vpa)
            /\ UNCHANGED thrown
       ELSE /\ thrown' = TRUE
            /\ UNCHANGED extracted
    /\ cpc' = "done"
    /\ UNCHANGED <<code, vpa, vpaVars, webVars, checksumVars,
                   otherVars>>

CodecNext == formatStep \/ extractStep

CodecSpec == CodecInit /\ [][CodecNext]_vars

(***************************************************************************)
(* The checksum of a callback: parseHDFCResponse, generateChecksum and     *)
(* EncryptionUtil.validateChecksum (routes/health.js:476-520, 599-606).    *)
(* Of the 21 fields the model keeps one that is taken as it is             *)
(* (transactionId), one that goes through parseFloat (amount) and one that *)
(* goes through parseFloat(...) || 0 (tipAmount).                          *)
(***************************************************************************)
Digits == {"1", "2"}

\* the characters of a field; the separator cannot be inside a field
FieldChars == Digits \cup {".", "x"}

FieldStrings == [1..FieldLength -> FieldChars]

\* the length of the longest prefix of s made of digits
LeadingDigits(s) ==
    CHOOSE k \in 0..Len(s) :
        /\ \A i \in 1..k : s[i] \in Digits
        /\ k = Len(s) \/ s[k + 1] \notin Digits

NaNString == <<"N", "a", "N">>

\* String(parseFloat(s)) for a string of FieldChars: the leading digits,
\* then a dot and further digits if there are some; NaN without any digit
parseFloat(s) ==
    LET k == LeadingDigits(s)
        rest == SubSeq(s, k + 1, Len(s))
        f == IF rest # <<>> /\ rest[1] = "."
             THEN LeadingDigits(Tail(rest)) ELSE 0
    IN  IF k = 0 /\ f = 0 THEN NaNString
        ELSE (IF k = 0 THEN <<"0">> ELSE SubSeq(s, 1, k))
             \o (IF f = 0 THEN <<>> ELSE <<".">> \o SubSeq(rest, 2, f + 1))

\* parseFloat(s) || 0: NaN gives 0
parseFloatOrZero(s) ==
    IF parseFloat(s) = NaNString THEN <<"0">> ELSE parseFloat(s)

\* parseHDFCResponse, and the delete of the checksum (lines 601-602):
\* transactionId as it is, amount and tipAmount as numbers
parseHDFCResponse(fs) ==
    <<fs[1], parseFloat(fs[2]), parseFloatOrZero(fs[3])>>

\* Object.values(data).join('|')
RECURSIVE JoinValues(_)
JoinValues(values) ==
    IF values = <<>> THEN <<>>
    ELSE IF Len(values) = 1 THEN values[1]
    ELSE values[1] \o <<"|">> \o JoinValues(Tail(values))

\* the keyed digest, taken to have no collisions
Hmac(key, dataString) == <<"HMAC-SHA256", key, dataString>>

\* generateChecksum(data, key)
generateChecksum(data, key) == Hmac(key, JoinValues(data))

\* EncryptionUtil.validateChecksum(data, receivedChecksum, key)
checksumMatches(data, receivedChecksum, key) ==
    generateChecksum(data, key) = receivedChecksum

\* the field every untouched field holds
DefaultField == [i \in 1..FieldLength |-> "1"]

\* a plaintext whose checksum is right, then one character of one field
\* replaced by another one, the checksum left as it was
ChecksumInit ==
    /\ VpaQuiet
    /\ WebQuiet
    /\ CodecQuiet
    /\ AuthQuiet
    /\ AltQuiet
    /\ RefundQuiet
    /\ QrQuiet
    /\ kpc = "parse"
    /\ \E f \in 1..3, s \in FieldStrings, i \in 1..FieldLength,
          ch \in FieldChars :
          /\ ch # s[i]
          /\ sentFields = [[j \in 1..3 |-> DefaultField] EXCEPT ![f] = s]
          /\ fields = [sentFields EXCEPT ![f][i] = ch]
    /\ checksum = generateChecksum(parseHDFCResponse(sentFields), "key")
    /\ transactionData = <<>>
    /\ accepted = FALSE

\* transactionData = EncryptionUtil.parseHDFCResponse(decryptedData)
parseStep ==
    /\ kpc = "parse"
    /\ transactionData' = parseHDFCResponse(fields)
    /\ kpc' = "validate"
    /\ UNCHANGED <<sentFields, fields, checksum, accepted, vpaVars, webVars,
                   codecVars, otherVars>>

\* EncryptionUtil.validateChecksum(checksumData, transactionData.checksum,
\* merchantKey)
validateStep ==
    /\ kpc = "validate"
    /\ accepted' = checksumMatches(transactionData, checksum, "key")
    /\ kpc' = "done"
    /\ UNCHANGED <<sentFields, fields, checksum, transactionData, vpaVars,
                   webVars, codecVars, otherVars>>

ChecksumNext == parseStep \/ validateStep

ChecksumSpec == ChecksumInit /\ [][ChecksumNext]_vars

(***************************************************************************)
(* The authentication of the merchant API (middleware/apiAuth.js).  The    *)
(* middleware is synchronous: one request is one step.                     *)
(***************************************************************************)
\* the secrets initializeAPIKeys can draw: 'sk_live_' or 'sk_test_' followed
\* by 32 hexadecimal digits
LiveSecrets == {"sk_live_00", "sk_live_ff"}
TestSecrets == {"sk_test_00", "sk_test_ff"}

DemoSecret == "sk_live_demo_key"

\* the values of the x-api-key and x-api-secret headers; "" is a header
\* that is absent or empty
HeaderKeys == {"", "mk_live_MERCH001", "mk_test_MERCH002", "invalid_key"}
HeaderSecrets ==
    {"", "invalid_secret", DemoSecret} \cup LiveSecrets \cup TestSecrets

NoHeaders == <<>>

\* initializeAPIKeys: the two keys set on module load
initializeAPIKeys(liveSecret, testSecret) ==
    [k \in {"mk_live_MERCH001", "mk_test_MERCH002"} |->
        IF k = "mk_live_MERCH001"
        THEN [secret |-> liveSecret, merchantId |-> "MERCH001",
              rateLimit |-> RateLimitLive, status |-> "active"]
        ELSE [secret |-> testSecret, merchantId |-> "MERCH002",
              rateLimit |-> RateLimitTest, status |-> "active"]]

\* validateAPIKey(apiKey, apiSecret).valid
validateAPIKey(apiKey, apiSecret) ==
    /\ apiKey \in DOMAIN apiKeyStore
    /\ apiKeyStore[apiKey].status = "active"
    /\ apiKeyStore[apiKey].secret = apiSecret

\* the state after the load of the module
AuthInit ==
    /\ VpaQuiet
    /\ WebQuiet
    /\ CodecQuiet
    /\ ChecksumQuiet
    /\ AltQuiet
    /\ RefundQuiet
    /\ QrQuiet
    /\ \E l \in LiveSecrets, t \in TestSecrets :
          apiKeyStore = initializeAPIKeys(l, t)
    /\ rateLimitStore = [k \in DOMAIN apiKeyStore |-> 0]
    /\ headers = NoHeaders
    /\ admitted = FALSE
    /\ authStatus = 0
    /\ merchant = ""

Reject(status) ==
    /\ admitted' = FALSE
    /\ authStatus' = status
    /\ merchant' = ""

Admit(merchantId) ==
    /\ admitted' = TRUE
    /\ authStatus' = 0
    /\ merchant' = merchantId

\* authenticateAPI(req, res, next), with checkRateLimit; `expired` is the
\* number of recorded requests that have left the window of one minute
authenticateAPI ==
    /\ \E apiKey \in HeaderKeys, apiSecret \in HeaderSecrets :
        /\ headers' = [apiKey |-> apiKey, apiSecret |-> apiSecret]
        /\ IF apiKey = "" \/ apiSecret = ""
           THEN Reject(401) /\ UNCHANGED rateLimitStore
           ELSE IF apiKey = "mk_live_MERCH001" /\ apiSecret = DemoSecret
           THEN Admit("MERCH001") /\ UNCHANGED rateLimitStore
           ELSE IF ~validateAPIKey(apiKey, apiSecret)
           THEN Reject(401) /\ UNCHANGED rateLimitStore
           ELSE \E expired \in 0..rateLimitStore[apiKey] :
                  LET requests == rateLimitStore[apiKey] - expired IN
                  IF requests >= apiKeyStore[apiKey].rateLimit
                  THEN /\ rateLimitStore' =
                             [rateLimitStore EXCEPT ![apiKey] = requests]
                       /\ Reject(429)
                  ELSE /\ rateLimitStore' =
                             [rateLimitStore EXCEPT ![apiKey] = requests + 1]
                       /\ Admit(apiKeyStore[apiKey].merchantId)
    /\ UNCHANGED <<apiKeyStore, vpaVars, webVars, pureVars, altVars,
                   refundVars, qrVars>>

AuthNext == authenticateAPI

AuthSpec == AuthInit /\ [][AuthNext]_vars

(***************************************************************************)
(* generateAlternatives (vpaService.js:323-346).  An identifier is its      *)
(* first four characters and its last one: identifier n ends with          *)
(* character (n - 1) % NumChars.  The tables do not change during the call. *)
(***************************************************************************)
\* chars.slice(0, -1).join('') + this.IDENTIFIER_CHARS[i]
WithLastChar(id, i) == ((id - 1) \div NumChars) * NumChars + i + 1

\* where the call goes on after a step: the test of the for loop, then the
\* test of the while loop, then the return
AltPc(i, alts, n) ==
    IF i < NumChars /\ Len(alts) < n THEN "strategy1"
    ELSE IF Len(alts) < n THEN "strategy2"
    ELSE "done"

\* alternatives.slice(0, count)
Slice(alts, n) == SubSeq(alts, 1, IF Len(alts) < n THEN Len(alts) ELSE n)

AltGoOn(i, alts) ==
    /\ altIndex' = i
    /\ alternatives' = alts
    /\ apc' = AltPc(i, alts, count)
    /\ altResult' = IF AltPc(i, alts, count) = "done"
                    THEN Slice(alts, count) ELSE <<>>

\* a call with any base and count, on any contents of the tables
AltInit ==
    /\ WebQuiet /\ CodecQuiet /\ ChecksumQuiet /\ AuthQuiet /\ RefundQuiet
    /\ QrQuiet
    /\ vpa_pool \in InitialPools
    /\ qr_codes \in SUBSET (Identifiers \ PoolIds(vpa_pool))
    /\ redisClient = FALSE
    /\ maxRetries = RetryBound
    /\ redisKeys = [id \in Identifiers |-> NoLock]
    /\ svcLock = [id \in Identifiers |-> NoLock]
    /\ pc = [c \in Callers |-> "off"]
    /\ attempts = [c \in Callers |-> 0]
    /\ identifier = [c \in Callers |-> NoId]
    /\ retval = [c \in Callers |-> NoId]
    /\ result = [c \in Callers |-> NoId]
    /\ path = [c \in Callers |-> "none"]
    /\ refillPc = "idle"
    /\ refillIds = {}
    /\ preUsed = {}
    /\ unused0 = 0
    /\ base \in Identifiers
    /\ count \in 1..MaxCount
    /\ altIndex = 0
    /\ alternatives = <<>>
    /\ altDraws = 0
    /\ altResult = <<>>
    /\ apc = AltPc(0, <<>>, count)

\* one pass of the loop of strategy 1 (lines 328-334)
altStrategy1 ==
    /\ apc = "strategy1"
    /\ LET newIdentifier == WithLastChar(base, altIndex)
           exists == checkIdentifierExists(newIdentifier)
       IN  AltGoOn(altIndex + 1,
                   IF ~exists /\ newIdentifier # base
                   THEN Append(alternatives, newIdentifier)
                   ELSE alternatives)
    /\ UNCHANGED <<base, count, altDraws, vpaVars, webVars, pureVars,
                   authVars, refundVars, qrVars>>

\* one pass of the loop of strategy 2 (lines 337-343)
altStrategy2 ==
    /\ apc = "strategy2"
    /\ \E newIdentifier \in Identifiers :
          AltGoOn(altIndex,
                  IF ~checkIdentifierExists(newIdentifier)
                  THEN Append(alternatives, newIdentifier)
                  ELSE alternatives)
    /\ altDraws' = 1 - altDraws
    /\ UNCHANGED <<base, count, vpaVars, webVars, pureVars, authVars,
                   refundVars, qrVars>>

AltNext == altStrategy1 \/ altStrategy2

\* every await is answered, and a random candidate that is free is drawn
\* in the end if there is one
AltSpec ==
    /\ AltInit
    /\ [][AltNext]_vars
    /\ WF_vars(altStrategy1)
    /\ WF_vars(altStrategy2)
    /\ SF_vars(altStrategy2 /\ alternatives' # alternatives)

(***************************************************************************)
(* initiateRefund (QRTransactionService.js:353-433): a unit of work on one *)
(* connection per call.  A SELECT reads what is committed; the writes of a *)
(* unit reach the tables with its commit and are dropped by its rollback;  *)
(* an UPDATE waits for the uncommitted UPDATE of the same row.             *)
(***************************************************************************)
RefundRequests ==
    {[refund_type |-> "full", refund_amount |-> 0]} \cup
    [refund_type : {"partial"}, refund_amount : 1..(TxnAmount + 1)]

\* a recorded transaction of TxnAmount, and no refund asked yet
RefundInit ==
    /\ VpaQuiet /\ WebQuiet /\ CodecQuiet /\ ChecksumQuiet /\ AuthQuiet
    /\ AltQuiet /\ QrQuiet
    /\ refundRow \in [status : {"success", "failed", "pending"},
                       amount : {TxnAmount}, refund_amount : {0}]
    /\ qr_refund_audit = {}
    /\ fpc = [f \in Refunders |-> "start"]
    /\ refundData = [f \in Refunders |-> NoRefundData]
    /\ refundAmount = [f \in Refunders |-> 0]
    /\ funit = [f \in Refunders |-> NoFunit]
    /\ refundResult = [f \in Refunders |-> "none"]

refundOthers == <<vpaVars, webVars, pureVars, authVars, altVars, qrVars>>

\* the catch of lines 426-429: rollback, then the error is thrown
RefundThrow(f, err) ==
    /\ funit' = [funit EXCEPT ![f] = NoFunit]
    /\ refundResult' = [refundResult EXCEPT ![f] = err]
    /\ fpc' = [fpc EXCEPT ![f] = "done"]

\* lines 355-378: beginTransaction, the SELECT of the row with status
\* 'success', the refund amount and its test
refundSelect(f) ==
    /\ fpc[f] = "start"
    /\ \E data \in RefundRequests :
        LET amount == IF data.refund_type = "full"
                      THEN refundRow.amount ELSE data.refund_amount
        IN  /\ refundData' = [refundData EXCEPT ![f] = data]
            /\ IF refundRow.status # "success"
               THEN /\ RefundThrow(f, "not eligible")
                    /\ UNCHANGED refundAmount
               ELSE IF amount > refundRow.amount
               THEN /\ RefundThrow(f, "exceeds amount")
                    /\ UNCHANGED refundAmount
               ELSE /\ refundAmount' = [refundAmount EXCEPT ![f] = amount]
                    /\ funit' = [funit EXCEPT ![f].state = "active"]
                    /\ fpc' = [fpc EXCEPT ![f] = "insert"]
                    /\ UNCHANGED refundResult
    /\ UNCHANGED <<refundRow, qr_refund_audit, refundOthers>>

\* lines 383-398: INSERT INTO qr_refund_audit
refundInsert(f) ==
    /\ fpc[f] = "insert"
    /\ funit' = [funit EXCEPT ![f].inserted = TRUE]
    /\ fpc' = [fpc EXCEPT ![f] = "update"]
    /\ UNCHANGED <<refundRow, qr_refund_audit, refundData, refundAmount,
                   refundResult, refundOthers>>

\* lines 401-411: UPDATE qr_transactions ... WHERE transaction_id = ?
refundUpdate(f) ==
    /\ fpc[f] = "update"
    /\ \A o \in Refunders \ {f} : ~funit[o].updated
    /\ funit' = [funit EXCEPT ![f].updated = TRUE]
    /\ fpc' = [fpc EXCEPT ![f] = "commit"]
    /\ UNCHANGED <<refundRow, qr_refund_audit, refundData, refundAmount,
                   refundResult, refundOthers>>

\* line 416: connection.commit(), then the return of the refund
refundCommit(f) ==
    /\ fpc[f] = "commit"
    /\ qr_refund_audit' = qr_refund_audit \cup
          {[by |-> f, refund_amount |-> refundAmount[f],
            refund_type |-> refundData[f].refund_type]}
    /\ refundRow' = [refundRow EXCEPT
          !.status = IF refundData[f].refund_type = "full"
                     THEN "refunded" ELSE "partial_refunded",
          !.refund_amount = refundAmount[f]]
    /\ funit' = [funit EXCEPT ![f] = NoFunit]
    /\ refundResult' = [refundResult EXCEPT ![f] = "initiated"]
    /\ fpc' = [fpc EXCEPT ![f] = "done"]
    /\ UNCHANGED <<refundData, refundAmount, refundOthers>>

\* a statement of the unit, or its commit, is rejected
refundFails(f) ==
    /\ fpc[f] \in {"insert", "update", "commit"}
    /\ RefundThrow(f, "storage")
    /\ UNCHANGED <<refundRow, qr_refund_audit, refundData, refundAmount,
                   refundOthers>>

RefundNext ==
    \/ \E f \in Refunders : refundSelect(f)
    \/ \E f \in Refunders : refundInsert(f)
    \/ \E f \in Refunders : refundUpdate(f)
    \/ \E f \in Refunders : refundCommit(f)
    \/ \E f \in Refunders : refundFails(f)

RefundSpec == RefundInit /\ [][RefundNext]_vars

(***************************************************************************)
(* The QR limit of QRController.createQR (controllers/qrController.js:     *)
(* 15-31): the request up to the call of generateUniqueIdentifier.         *)
(***************************************************************************)
\* a >= b in JavaScript with b read from the environment: false when the
\* variable is not set (undefined compares as NaN)
JsAtLeast(a, b) == b # Unset /\ a >= b

\* the truth value of a number in a condition: every number but 0 and NaN
Truthy(n) == n # 0

\* the test of line 26: qrCount >= process.env.MAX_QR_PER_MERCHANT || 100
limitReached(qrCount, envMax) ==
    IF JsAtLeast(qrCount, envMax) THEN TRUE ELSE Truthy(DefaultMaxQr)

\* any environment and any number of active QR codes per merchant
QrInit ==
    /\ VpaQuiet /\ WebQuiet /\ CodecQuiet /\ ChecksumQuiet /\ AuthQuiet
    /\ AltQuiet /\ RefundQuiet
    /\ maxQrPerMerchant \in {Unset} \cup 1..MaxQrSetting
    /\ activeQRCount \in [Merchants -> 0..(MaxQrSetting + 1)]
    /\ qrRequest = NoQrRequest
    /\ qrOutcome = "none"

\* createQR for a request of merchant m, up to line 31
createQRRequest(m) ==
    /\ \E valid \in BOOLEAN :
        /\ qrRequest' = [merchantId |-> m, valid |-> valid]
        /\ qrOutcome' =
              IF ~valid THEN "Validation failed"
              ELSE IF limitReached(activeQRCount[m], maxQrPerMerchant)
              THEN "Maximum QR limit reached"
              ELSE "generateUniqueIdentifier"
    /\ UNCHANGED <<maxQrPerMerchant, activeQRCount, vpaVars, webVars, pureVars,
                   authVars, altVars, refundVars>>

QrNext == \E m \in Merchants : createQRRequest(m)

QrSpec == QrInit /\ [][QrNext]_vars

\* the state after construction of the allocation service
Init ==
    /\ VpaInit /\ WebQuiet /\ CodecQuiet /\ ChecksumQuiet /\ AuthQuiet
    /\ AltQuiet /\ RefundQuiet /\ QrQuiet

\* the state after start of the webhook service, its tables empty
WebhookInit ==
    /\ VpaQuiet
    /\ CodecQuiet
    /\ ChecksumQuiet
    /\ AuthQuiet
    /\ AltQuiet
    /\ RefundQuiet
    /\ QrQuiet
    /\ nodeEnv \in {"production", "development"}
    /\ merchantKey \in BOOLEAN
    /\ qr_transactions = [t \in TxnIds |-> NoRow]
    /\ qr_daily_stats = [m \in Merchants |->
                            [successful_transactions |-> 0,
                             successful_amount |-> 0]]
    /\ qr_webhook_events = {}
    /\ localStore = {}
    /\ wpc = [d \in Deliveries |-> "idle"]
    /\ payload = [d \in Deliveries |-> NoPayload]
    /\ existing = [d \in Deliveries |-> FALSE]
    /\ unit = [d \in Deliveries |-> NoUnit]
    /\ response = [d \in Deliveries |-> NoResponse]
    /\ lookup = [d \in Deliveries |-> "none"]
    /\ counted = [t \in TxnIds |-> 0]
    /\ statusChanges = {}

envVars == <<nodeEnv, merchantKey>>
tableVars == <<qr_transactions, qr_daily_stats, qr_webhook_events, counted,
               statusChanges>>

\* the request ends with this response
Finish(d, r) ==
    /\ response' = [response EXCEPT ![d] = r]
    /\ wpc' = [wpc EXCEPT ![d] = "done"]

\* lines 566-610: the body test, the key, decrypt and parse, the checksum;
\* everything up to the first await
receiveWebhook(d) ==
    /\ wpc[d] = "idle"
    /\ \E encryptedData \in BOOLEAN, p \in Payloads :
        IF ~encryptedData
        THEN /\ Finish(d, Respond(400, FALSE, "Missing encrypted data"))
             /\ UNCHANGED payload
        ELSE IF ~merchantKey
        THEN /\ Finish(d, Respond(500, FALSE, "Merchant key not configured"))
             /\ UNCHANGED payload
        ELSE /\ payload' = [payload EXCEPT ![d] = p]
             /\ IF validateChecksum(p.checksumOk, nodeEnv)
                THEN /\ wpc' = [wpc EXCEPT ![d] = "checkDuplicate"]
                     /\ UNCHANGED response
                ELSE Finish(d, Respond(500, FALSE, "Invalid checksum"))
    /\ UNCHANGED <<envVars, tableVars, localStore, existing, unit, lookup,
                   vpaVars, pureVars,
                   otherVars>>

\* LocalTransactionStore.saveTransaction: skip a known transactionId
saveTransaction(store, t) == store \cup {t}

\* lines 612-640: checkDuplicate (a rejected lookup counts as "no
\* duplicate"), then validateAmount and validateTimestamp, then the
\* dispatch; in development the local store takes the transaction
checkDuplicate(d) ==
    /\ wpc[d] = "checkDuplicate"
    /\ \E lookupFails \in BOOLEAN :
        LET p == payload[d]
            isDuplicate == ~lookupFails
                           /\ getTransactionDetails(p.transactionId, p.merchantId)
        IN
         /\ lookup' = [lookup EXCEPT ![d] =
                          IF lookupFails THEN "failed"
                          ELSE IF isDuplicate THEN "found" ELSE "absent"]
         /\ IF isDuplicate
            THEN /\ Finish(d, Respond(200, TRUE, "none"))
                 /\ UNCHANGED localStore
            ELSE IF ~validateAmount(p.amount)
            THEN /\ Finish(d, Respond(500, FALSE, "Amount outside limits"))
                 /\ UNCHANGED localStore
            ELSE IF ~validateTimestamp(p.age, nodeEnv)
            THEN /\ Finish(d, Respond(500, FALSE, "Older than 24 hours"))
                 /\ UNCHANGED localStore
            ELSE IF nodeEnv = "development"
            THEN /\ localStore' = saveTransaction(localStore, p.transactionId)
                 /\ Finish(d, Respond(200, FALSE, "none"))
            ELSE /\ wpc' = [wpc EXCEPT ![d] = "begin"]
                 /\ UNCHANGED <<response, localStore>>
    /\ UNCHANGED <<envVars, tableVars, payload, existing, unit, vpaVars, pureVars,
                   otherVars>>

\* a rollback that does nothing, as the one of a connection without
\* transactions
rollbackNoOp(u) == u

\* connection.rollback(): the writes of the unit are dropped
rollback(u) == [u EXCEPT !.state = "rolledback"]

\* the writes of a unit stay in the tables unless it was rolled back
Persists(u) == u.state # "rolledback"

\* the rows of qr_transactions once request d's unit has ended as u
EndRow(rows, d, u, p) ==
    IF Persists(u) /\ u.kind = "insert"
    THEN [rows EXCEPT ![p.transactionId] =
            [merchant_id |-> p.merchantId, status |-> u.status,
             amount |-> p.amount, by |-> d]]
    ELSE IF Persists(u) /\ u.kind = "update"
    THEN [rows EXCEPT ![p.transactionId].status = u.status,
                      ![p.transactionId].by = d]
    ELSE rows

\* the qr_daily_stats rows once the unit has ended as u
EndStats(stats, u, p) ==
    IF Persists(u) /\ u.stats
    THEN [stats EXCEPT
            ![p.merchantId].successful_transactions = @ + 1,
            ![p.merchantId].successful_amount = @ + p.amount]
    ELSE stats

\* the qr_webhook_events rows once the unit has ended as u
EndEvents(events, d, u, p) ==
    IF Persists(u) /\ u.event
    THEN events \cup {[by |-> d, transaction_id |-> p.transactionId,
                       event_type |-> u.status]}
    ELSE events

\* the connection of request d ends with its unit as u: what the tables hold
EndUnit(d, u) ==
    LET p == payload[d]
        old == qr_transactions[p.transactionId]
    IN  /\ unit' = [unit EXCEPT ![d] = u]
        /\ qr_transactions' = EndRow(qr_transactions, d, u, p)
        /\ qr_daily_stats' = EndStats(qr_daily_stats, u, p)
        /\ qr_webhook_events' = EndEvents(qr_webhook_events, d, u, p)
        /\ counted' = IF Persists(u) /\ u.stats
                      THEN [counted EXCEPT ![p.transactionId] = @ + 1]
                      ELSE counted
        /\ statusChanges' =
              IF Persists(u) /\ u.kind = "update" /\ old.status # u.status
              THEN statusChanges \cup {<<old.status, u.status>>}
              ELSE statusChanges

\* the catch block of processTransactionWebhook (rollback, rethrow), then
\* the 500 of the route
Fail(d, err) ==
    /\ EndUnit(d, rollback(unit[d]))
    /\ Finish(d, Respond(500, FALSE, err))

\* lines 241-266: getConnection, beginTransaction, the qr_codes lookup
beginUnit(d) ==
    /\ wpc[d] = "begin"
    /\ IF payload[d].qrKnown
       THEN /\ unit' = [unit EXCEPT ![d] = [NoUnit EXCEPT !.state = "active"]]
            /\ wpc' = [wpc EXCEPT ![d] = "selectExisting"]
            /\ UNCHANGED <<response, tableVars>>
       ELSE /\ EndUnit(d, rollback([NoUnit EXCEPT !.state = "active"]))
            /\ Finish(d, Respond(500, FALSE, "Invalid QR code"))
    /\ UNCHANGED <<envVars, localStore, payload, existing, lookup, vpaVars, pureVars,
                   otherVars>>

\* lines 269-272: SELECT id FROM qr_transactions WHERE transaction_id = ?
\* (a plain read: it sees the rows committed so far)
selectExisting(d) ==
    /\ wpc[d] = "selectExisting"
    /\ existing' = [existing EXCEPT ![d] =
                       qr_transactions[payload[d].transactionId] # NoRow]
    /\ wpc' = [wpc EXCEPT ![d] = "write"]
    /\ UNCHANGED <<envVars, tableVars, localStore, payload, unit, response,
                   lookup, vpaVars, pureVars,
                   otherVars>>

\* another open unit holds an uncommitted write of the row of t
RowLocked(d, t) ==
    \E o \in Deliveries \ {d} :
        /\ unit[o].state = "active"
        /\ unit[o].kind # "none"
        /\ payload[o].transactionId = t

\* lines 275-311: UPDATE the existing row, or INSERT a new one. The
\* statement waits for an uncommitted write of the same row; the INSERT
\* of a transaction_id that is committed by then breaks the UNIQUE key,
\* and the INSERT of an amount that is no number is rejected.
writeTransaction(d) ==
    /\ wpc[d] = "write"
    /\ ~RowLocked(d, payload[d].transactionId)
    /\ LET p == payload[d]
           st == mappedStatus(p.transactionStatus)
       IN  IF existing[d]
           THEN /\ unit' = [unit EXCEPT ![d].kind = "update", ![d].status = st]
                /\ wpc' = [wpc EXCEPT ![d] =
                              IF st = "success" THEN "stats" ELSE "event"]
                /\ UNCHANGED <<response, tableVars>>
           ELSE IF qr_transactions[p.transactionId] # NoRow
           THEN Fail(d, "ER_DUP_ENTRY")
           ELSE IF p.amount = NaN
           THEN Fail(d, "ER_BAD_FIELD_ERROR")
           ELSE /\ unit' = [unit EXCEPT ![d].kind = "insert", ![d].status = st]
                /\ wpc' = [wpc EXCEPT ![d] =
                              IF st = "success" THEN "stats" ELSE "event"]
                /\ UNCHANGED <<response, tableVars>>
    /\ UNCHANGED <<envVars, localStore, payload, existing, lookup, vpaVars, pureVars,
                   otherVars>>

\* another open unit holds an uncommitted write of the stats row of m
StatsLocked(d, m) ==
    \E o \in Deliveries \ {d} :
        /\ unit[o].state = "active"
        /\ unit[o].stats
        /\ payload[o].merchantId = m

\* lines 314-316: updateDailyStats when status === 'success'
updateDailyStats(d) ==
    /\ wpc[d] = "stats"
    /\ ~StatsLocked(d, payload[d].merchantId)
    /\ IF payload[d].amount = NaN
       THEN Fail(d, "ER_BAD_FIELD_ERROR")
       ELSE /\ unit' = [unit EXCEPT ![d].stats = TRUE]
            /\ wpc' = [wpc EXCEPT ![d] = "event"]
            /\ UNCHANGED <<response, tableVars>>
    /\ UNCHANGED <<envVars, localStore, payload, existing, lookup, vpaVars, pureVars,
                   otherVars>>

\* lines 319-330: INSERT INTO qr_webhook_events
logWebhookEvent(d) ==
    /\ wpc[d] = "event"
    /\ unit' = [unit EXCEPT ![d].event = TRUE]
    /\ wpc' = [wpc EXCEPT ![d] = "commit"]
    /\ UNCHANGED <<envVars, tableVars, localStore, payload, existing, response,
                   lookup, vpaVars, pureVars,
                   otherVars>>

\* line 332: connection.commit(), then the 200 of the route
commitUnit(d) ==
    /\ wpc[d] = "commit"
    /\ EndUnit(d, [unit[d] EXCEPT !.state = "committed"])
    /\ Finish(d, Respond(200, FALSE, "none"))
    /\ UNCHANGED <<envVars, localStore, payload, existing, lookup, vpaVars, pureVars,
                   otherVars>>

\* a statement of the unit of work, or its commit, is rejected by storage
unitFails(d) ==
    /\ wpc[d] \in {"selectExisting", "write", "stats", "event", "commit"}
    /\ Fail(d, "storage")
    /\ UNCHANGED <<envVars, localStore, payload, existing, lookup, vpaVars, pureVars,
                   otherVars>>

Next ==
    \/ \E c \in Callers : getFromPool(c)
    \/ \E c \in Callers : acquireLock(c)
    \/ \E c \in Callers : checkExists(c)
    \/ \E c \in Callers : reserve(c)
    \/ \E c \in Callers : lockedQueryFails(c)
    \/ \E c \in Callers : queryFails(c)
    \/ \E c \in Callers : \E line \in {61, 65} : releaseLock(c, line)
    \/ \E c \in Callers : \E line \in {61, 65} : deleteLockValue(c, line)
    \/ \E c \in Callers : sequentialSelect(c)
    \/ \E c \in Callers : sequentialMark(c)
    \/ \E id \in Identifiers : expireLock(id)
    \/ refillCount
    \/ refillCheck
    \/ refillInsert

Spec == Init /\ [][Next]_vars

WebhookNext ==
    \/ \E d \in Deliveries : receiveWebhook(d)
    \/ \E d \in Deliveries : checkDuplicate(d)
    \/ \E d \in Deliveries : beginUnit(d)
    \/ \E d \in Deliveries : selectExisting(d)
    \/ \E d \in Deliveries : writeTransaction(d)
    \/ \E d \in Deliveries : updateDailyStats(d)
    \/ \E d \in Deliveries : logWebhookEvent(d)
    \/ \E d \in Deliveries : commitUnit(d)
    \/ \E d \in Deliveries : unitFails(d)

WebhookSpec == WebhookInit /\ [][WebhookNext]_vars

TypeOK ==
    /\ PoolIds(vpa_pool) \subseteq Identifiers
    /\ \A c \in Callers : attempts[c] \in 0..maxRetries

(***************************************************************************)
(* Properties of the identifier allocation (specification Spec)            *)
(***************************************************************************)
\* the calls that returned an identifier
Returned == {c \in Callers : result[c] \in Identifiers}

\* C1: when the pool holds at least as many unused identifiers as there
\* are concurrent generateUniqueIdentifier() calls, the calls that return
\* have all been served by the atomic pool claim and their identifiers
\* are pairwise distinct.
C1_PoolClaimsDistinct ==
    unused0 >= Cardinality(Callers) =>
        \A c1 \in Returned :
            /\ path[c1] = "pool"
            /\ \A c2 \in Returned \ {c1} : result[c1] # result[c2]

\* C1 witness: every call has returned from a pool that held enough unused
\* identifiers, with distinct identifiers.
C1_Witness ==
    /\ unused0 >= Cardinality(Callers)
    /\ Returned = Callers
    /\ \A c \in Callers : pc[c] = "done" /\ path[c] = "pool"
    /\ Cardinality({result[c] : c \in Callers}) = Cardinality(Callers)

\* C2 as stated: in every interleaving of calls and refills an identifier
\* has at most one holder: no two calls return the same identifier and no
\* call returns one that was in use before, whichever path served it.
C2_AtMostOneHolder ==
    \A c1 \in Returned :
        /\ result[c1] \notin preUsed
        /\ \A c2 \in Returned \ {c1} : result[c1] # result[c2]

\* C9 as stated: whether or not the lock service is there and whether or
\* not a lock has expired, two calls that chose the same random candidate
\* do not both obtain it.
C9_CandidateObtainedOnce ==
    \A c1, c2 \in Returned :
        (c1 # c2 /\ path[c1] = "random" /\ path[c2] = "random")
            => result[c1] # result[c2]

\* the identifiers nobody holds: no qr_codes row and no used pool row
FreeIds == Identifiers \ (qr_codes \cup UsedIds(vpa_pool))

\* C10 as stated: with no unused identifier in the pool and no lock
\* service, a call ends with the exhaustion error only when no free
\* identifier exists.
C10_ExhaustedOnlyWhenNoneFree ==
    \A c \in Callers :
        (unused0 = 0 /\ ~redisClient /\ result[c] = Exhausted)
            => FreeIds = {}

(***************************************************************************)
(* Properties of the webhook processing (specification WebhookSpec)        *)
(***************************************************************************)
\* the requests are deliveries of one and the same callback
SameCallback == \A d1, d2 \in Deliveries : payload[d1] = payload[d2]

\* no checkDuplicate lookup was rejected by storage
LookupsAnswered == \A d \in Deliveries : lookup[d] # "failed"

\* C3 as stated: however the deliveries of one callback are ordered or
\* interleaved, the daily aggregate of its transaction id is incremented
\* at most once.
C3_AggregateCountedOnce ==
    (SameCallback /\ LookupsAnswered) =>
        \A t \in TxnIds : counted[t] <= 1

\* request d has seen a stored record of its transaction id and merchant,
\* in the lookup of the route or in the one of the unit of work
SawRecord(d) ==
    \/ lookup[d] = "found"
    \/ /\ existing[d]
       /\ qr_transactions[payload[d].transactionId].merchant_id
             = payload[d].merchantId

\* C4 as stated: a request that found a record of its transaction id
\* (scoped to the merchant) and was answered 200 reports the duplicate and
\* has written nothing: no row change, no aggregate, no event.
C4_DuplicateWritesNothing ==
    \A d \in Deliveries :
        (wpc[d] = "done" /\ response[d].code = 200 /\ lookup[d] # "failed"
            /\ SawRecord(d))
        => (response[d].isDuplicate /\ unit[d].state # "committed")

\* C5 as stated: of two deliveries of the same callback, one inserts the
\* row and the other one, unless storage fails, reports the duplicate and
\* writes nothing.
C5_LoserReportsDuplicate ==
    \A d1, d2 \in Deliveries :
        (/\ d1 # d2
         /\ SameCallback /\ LookupsAnswered
         /\ wpc[d1] = "done" /\ wpc[d2] = "done"
         /\ unit[d1].state = "committed" /\ unit[d1].kind = "insert"
         /\ response[d2].error # "storage")
        => (response[d2].isDuplicate /\ unit[d2].state # "committed")

\* the requests whose unit of work was begun and ended in an error
FailedUnits ==
    {d \in Deliveries :
        wpc[d] = "done" /\ unit[d].state # "none" /\ response[d].code = 500}

\* the requests that ended well with an updateDailyStats for merchant m
CountedFor(m) ==
    {d \in Deliveries \ FailedUnits :
        /\ wpc[d] = "done"
        /\ unit[d].stats
        /\ payload[d].merchantId = m}

RECURSIVE SumAmounts(_)
SumAmounts(ds) ==
    IF ds = {} THEN 0
    ELSE LET d == CHOOSE x \in ds : TRUE
         IN  payload[d].amount + SumAmounts(ds \ {d})

\* C6: a unit of work that ended in an error leaves none of its writes:
\* no qr_transactions row written by it, no qr_webhook_events row of it,
\* and the daily aggregates hold exactly the increments of the units that
\* ended well.
C6_FailedUnitLeavesNothing ==
    /\ \A d \in FailedUnits :
        /\ \A t \in TxnIds :
              qr_transactions[t] = NoRow \/ qr_transactions[t].by # d
        /\ \A e \in qr_webhook_events : e.by # d
    /\ \A m \in Merchants :
        /\ qr_daily_stats[m].successful_transactions
              = Cardinality(CountedFor(m))
        /\ qr_daily_stats[m].successful_amount = SumAmounts(CountedFor(m))

\* C6 witness: a unit that had inserted the row, updated the aggregate
\* and logged the event was failed by storage, and the tables are empty.
C6_Witness ==
    \E d \in FailedUnits :
        /\ response[d].error = "storage"
        /\ unit[d].kind = "insert" /\ unit[d].stats /\ unit[d].event
        /\ qr_transactions[payload[d].transactionId] = NoRow
        /\ qr_webhook_events = {}
        /\ qr_daily_stats[payload[d].merchantId].successful_transactions = 0

\* C7 as stated: a payload for which the unit of work was begun has a
\* valid checksum, is at most 24 hours old and carries an amount within
\* the limits.
C7_EngineOnlyAfterChecks ==
    \A d \in Deliveries :
        unit[d].state # "none" =>
            /\ payload[d].checksumOk
            /\ payload[d].age <= MaxAgeHours
            /\ payload[d].amount \in AmountMin..AmountMax

\* the status changes of the state machine, in the stored lower case
AllowedTransitions ==
    {<<"initiated", "pending">>, <<"pending", "success">>,
     <<"pending", "failed">>, <<"pending", "timeout">>,
     <<"success", "refunded">>, <<"success", "partial_refunded">>}

\* C8 as stated: the stored status of a transaction id changes only along
\* the allowed transitions.
C8_OnlyAllowedTransitions == statusChanges \subseteq AllowedTransitions

(***************************************************************************)
(* QRController.createQR (controllers/qrController.js:13-95)               *)
(***************************************************************************)
\* what createQR answers for the outcome r of generateUniqueIdentifier():
\* the catch block of lines 91-94 answers every thrown error alike
createQR(r) ==
    IF r \in Identifiers
    THEN [status |-> 200, message |-> "QR code created successfully"]
    ELSE [status |-> 500, message |-> "Failed to create QR code"]

C12_ExtractInvertsFormat ==
    (cpc = "done" /\ code \in Codes) => (~thrown /\ extracted = code)

\* C12 witness: a code was formatted and extracted again.
C12_Witness ==
    /\ cpc = "done"
    /\ code \in Codes
    /\ vpa = VPA_PREFIX \o code \o VPA_DOMAIN
    /\ extracted = code

\* an address of exactly the prefix, five characters of A-Z and 0-9, and
\* the domain
WellFormed(v) ==
    LET np == Len(VPA_PREFIX)
        nd == Len(VPA_DOMAIN)
    IN  /\ Len(v) = np + IDENTIFIER_LENGTH + nd
        /\ SubSeq(v, 1, np) = VPA_PREFIX
        /\ \A i \in np + 1..np + IDENTIFIER_LENGTH : v[i] \in IDENTIFIER_CHARS
        /\ SubSeq(v, np + IDENTIFIER_LENGTH + 1, Len(v)) = VPA_DOMAIN

\* C13 as stated: for every address that is not well formed,
\* extractIdentifier throws and returns no part of the address.
C13_MalformedAddressThrows ==
    (cpc = "done" /\ code = <<>> /\ ~WellFormed(vpa)) =>
        (thrown /\ extracted = <<>>)

(***************************************************************************)
(* Properties of the checksum (specification ChecksumSpec)                 *)
(***************************************************************************)
\* C14 as stated: when one character of a field other than the checksum
\* was changed and the received checksum was left as it was, the checksum
\* validation fails.
C14_ChangedFieldFailsChecksum ==
    (kpc = "done" /\ fields # sentFields) => ~accepted

\* C15 as stated: the amount validation accepts exactly the finite numbers
\* from the minimum to the maximum: a payload that was not a duplicate is
\* answered with the amount error if and only if its amount is not such a
\* number.
C15_AmountAcceptedIffWithinLimits ==
    \A d \in Deliveries :
        lookup[d] \in {"failed", "absent"} =>
            (response[d].error = "Amount outside limits"
                <=> payload[d].amount \notin AmountMin..AmountMax)

\* C16 as stated: while the merchant key is missing the service takes no
\* callback at all: no delivery is received and none is answered.
C16_NoTrafficWithoutKey ==
    ~merchantKey =>
        \A d \in Deliveries : wpc[d] = "idle" /\ response[d] = NoResponse

\* the errors with which a payload is rejected for its integrity or for a
\* business rule
Rejections == {"Invalid checksum", "Amount outside limits",
               "Older than 24 hours", "Invalid QR code"}

\* C17 as stated: a success or a duplicate is answered 200, a request
\* without the encrypted data 400, a rejection for integrity or for a
\* business rule with a 4xx code, every other failure 500.
C17_ResponseCodeByOutcome ==
    \A d \in Deliveries :
        LET r == response[d] IN
        r # NoResponse =>
            /\ r.error = "none" => r.code = 200
            /\ r.error = "Missing encrypted data" => r.code = 400
            /\ r.error \in Rejections => r.code \in 400..499
            /\ r.error \notin Rejections \cup {"none", "Missing encrypted data"}
                   => r.code = 500

(***************************************************************************)
(* Properties of the merchant API authentication (specification AuthSpec)  *)
(***************************************************************************)
\* the credentials of the last request are those of a registered active key
Registered ==
    /\ headers.apiKey \in DOMAIN apiKeyStore
    /\ apiKeyStore[headers.apiKey].status = "active"
    /\ apiKeyStore[headers.apiKey].secret = headers.apiSecret

C19_ReleaseRemovesOwnLockOnly ==
    [][\A c \in Callers :
          (/\ pc[c] \in {"release61", "release65"}
           /\ pc'[c] \in {"delete61", "delete65"}
           /\ redisKeys'[identifier[c]] # redisKeys[identifier[c]])
          => redisKeys[identifier[c]] = LockValue(c)]_vars

\* C20 as stated: when an attempt that has acquired the lock of its
\* candidate ends (the call returns, throws, or goes on to its next
\* attempt), the key of the candidate no longer holds the value this
\* attempt has set.
C20_LockReleasedWhenAttemptEnds ==
    [][\A c \in Callers :
          (/\ pc[c] \in {"release65", "delete65"}
           /\ pc'[c] \notin {"release65", "delete65"})
          => redisKeys'[identifier[c]] # LockValue(c)]_vars

(***************************************************************************)
(* Termination of generateUniqueIdentifier (specification RetrySpec): the  *)
(* calls run with the retry bound of the source, and every await of a call *)
(* is answered in the end.                                                 *)
(***************************************************************************)
\* the value of a key that a call in another process of the service holds
ForeignLock == <<"other">>

\* one call on a service object with this.MAX_RETRIES as in the source;
\* some keys may be held by calls of other processes
RetryInit ==
    /\ WebQuiet /\ CodecQuiet /\ ChecksumQuiet /\ AuthQuiet /\ AltQuiet
    /\ RefundQuiet
    /\ QrQuiet
    /\ vpa_pool \in InitialPools
    /\ qr_codes \in SUBSET (Identifiers \ PoolIds(vpa_pool))
    /\ redisClient \in BOOLEAN
    /\ maxRetries = MAX_RETRIES
    /\ redisKeys \in [Identifiers -> {NoLock, ForeignLock}]
    /\ redisClient = FALSE => redisKeys = [id \in Identifiers |-> NoLock]
    /\ svcLock = [id \in Identifiers |-> NoLock]
    /\ pc = [c \in Callers |-> IF c = "c1" THEN "start" ELSE "off"]
    /\ attempts = [c \in Callers |-> 0]
    /\ identifier = [c \in Callers |-> NoId]
    /\ retval = [c \in Callers |-> NoId]
    /\ result = [c \in Callers |-> NoId]
    /\ path = [c \in Callers |-> "none"]
    /\ refillPc = "count"
    /\ refillIds = {}
    /\ preUsed = qr_codes \cup UsedIds(vpa_pool)
    /\ unused0 = getUnusedIdentifierCount(vpa_pool)

\* one step of call c: the continuation after one of its awaits
CallStep(c) ==
    \/ getFromPool(c)
    \/ acquireLock(c)
    \/ checkExists(c)
    \/ reserve(c)
    \/ lockedQueryFails(c)
    \/ queryFails(c)
    \/ \E line \in {61, 65} : releaseLock(c, line)
    \/ \E line \in {61, 65} : deleteLockValue(c, line)
    \/ sequentialSelect(c)
    \/ sequentialMark(c)

RetrySpec ==
    /\ RetryInit
    /\ [][Next]_vars
    /\ \A c \in Callers : WF_vars(CallStep(c))

\* C21: a call never makes more than MAX_RETRIES attempts with random
\* candidates, runs the sequential selection only after all of them, and
\* always ends, with an identifier or with an error.
C21_CallTerminates ==
    /\ [](\A c \in Callers :
            /\ attempts[c] <= MAX_RETRIES
            /\ pc[c] \in {"sequential", "markAsUsed"} => attempts[c] = MAX_RETRIES)
    /\ \A c \in Callers :
          pc[c] = "start" ~> (pc[c] = "done" /\ result[c] # NoId)

\* a call that has used up its attempts and got its identifier from the
\* sequential selection
C21_Witness ==
    /\ pc["c1"] = "done"
    /\ attempts["c1"] = MAX_RETRIES
    /\ path["c1"] = "sequential"
    /\ result["c1"] \in Identifiers

(***************************************************************************)
(* Further properties of the identifier allocation (specification Spec)    *)
(***************************************************************************)
\* C22 as stated: two calls that were both served by the sequential
\* selection never return the same identifier.
C22_SequentialResultsDistinct ==
    \A c \in Callers : \A o \in Callers \ {c} :
        (/\ path[c] = "sequential" /\ result[c] \in Identifiers
         /\ path[o] = "sequential" /\ result[o] \in Identifiers)
        => result[c] # result[o]

(***************************************************************************)
(* Further properties of the callback processing (specification            *)
(* WebhookSpec)                                                            *)
(***************************************************************************)
\* C23 as stated: a delivery whose duplicate lookup failed in the storage
\* has ended there with the error answer 500, as does a delivery whose unit
\* of work failed; it is not processed any further.
C23_StorageFailureEndsProcessing ==
    \A d \in Deliveries :
        /\ lookup[d] = "failed" =>
              /\ wpc[d] = "done"
              /\ unit[d] = NoUnit
              /\ response[d].code = 500
        /\ unit[d].state = "rolledback" =>
              /\ wpc[d] = "done"
              /\ response[d].code = 500

\* C24 as stated: every answered delivery that carried a payload, whether
\* it was accepted, found to be a duplicate or failed, has left an entry
\* in qr_webhook_events.
C24_EveryAttemptAudited ==
    \A d \in Deliveries :
        (wpc[d] = "done" /\ payload[d] # NoPayload) =>
            \E e \in qr_webhook_events : e.by = d

\* C25 as stated: a step that takes the number of unused identifiers of
\* the pool below the minimum threshold leaves a refill check scheduled or
\* running, whichever path of the call made the step.
C25_DropTriggersRefill ==
    [][(/\ getUnusedIdentifierCount(vpa_pool) >= MinThreshold
        /\ getUnusedIdentifierCount(vpa_pool') < MinThreshold)
       => refillPc' # "idle"]_vars

(***************************************************************************)
(* Properties of generateAlternatives (specification AltSpec)              *)
(***************************************************************************)
\* C26 as stated: a generateAlternatives call always ends, and what it
\* returns holds at most count identifiers.
C26_AlternativesTerminates ==
    /\ [](apc = "done" => Len(altResult) <= count)
    /\ <>(apc = "done")

\* C27 as stated: the unit of work of a callback that carries one
\* merchant's id changes neither a transaction row recorded under another
\* merchant nor, for such a transaction, the daily aggregates.
C27_OtherMerchantsRowUntouched ==
    [][\A d \in Deliveries :
          LET t == payload[d].transactionId IN
          (/\ wpc[d] = "commit"
           /\ wpc'[d] = "done"
           /\ qr_transactions[t] # NoRow
           /\ qr_transactions[t].merchant_id # payload[d].merchantId)
          => /\ qr_transactions'[t] = qr_transactions[t]
             /\ qr_daily_stats' = qr_daily_stats]_vars

(***************************************************************************)
(* Properties of the refunds (specification RefundSpec)                    *)
(***************************************************************************)
RECURSIVE SumRefunds(_)
SumRefunds(records) ==
    IF records = {} THEN 0
    ELSE LET r == CHOOSE x \in records : TRUE
         IN  r.refund_amount + SumRefunds(records \ {r})

\* C28 as stated: whatever the calls do concurrently, at most one refund
\* is recorded for the transaction and the amounts refunded do not exceed
\* its amount.
C28_AtMostOneRefund ==
    /\ Cardinality(qr_refund_audit) <= 1
    /\ SumRefunds(qr_refund_audit) <= refundRow.amount

\* the status a stored row is to have for a status the bank reported
ReportedStatus(bankStatus) ==
    CASE bankStatus = "SUCCESS" -> "success"
      [] bankStatus = "FAILED" -> "failed"
      [] bankStatus = "PENDING" -> "pending"

\* C29 as stated: the status of a stored transaction is the status that
\* the callback which wrote it reported: SUCCESS as success, FAILED as
\* failed, PENDING as pending.
C29_StoredStatusIsReported ==
    \A t \in TxnIds :
        qr_transactions[t] # NoRow =>
            qr_transactions[t].status =
                ReportedStatus(payload[qr_transactions[t].by].transactionStatus)

(***************************************************************************)
(* Properties of the QR limit (specification QrSpec)                       *)
(***************************************************************************)
\* the configured maximum: MAX_QR_PER_MERCHANT, or the default
QrLimit == IF maxQrPerMerchant = Unset THEN DefaultMaxQr ELSE maxQrPerMerchant

\* C30 as stated: a valid request is rejected with 'Maximum QR limit
\* reached' only when the merchant's count of active QR codes is at or
\* above the configured maximum; below it the request goes on to the
\* allocation of an identifier.
C30_LimitRejectsOnlyAtMaximum ==
    qrRequest.valid =>
        /\ qrOutcome = "Maximum QR limit reached"
              => activeQRCount[qrRequest.merchantId] >= QrLimit
        /\ activeQRCount[qrRequest.merchantId] < QrLimit
              => qrOutcome = "generateUniqueIdentifier"

====
